---- MODULE Spec2Model ----
(***************************************************************************)
(* Cost allocation over a chart of accounts (backend/app.py).              *)
(*                                                                         *)
(* Two operations are modelled step by step:                               *)
(*   allocate_costs : the ledger build, the weight normalisation, the      *)
(*                    cascading loop (one action per pass start and one    *)
(*                    per parent processed) and the result assembly;       *)
(*   validate_tree  : the three-colour depth-first cycle search, one       *)
(*                    action per traversal seed.                           *)
(*                                                                         *)
(* Numbers: Python floats are modelled as exact rationals (a numerator and *)
(* a positive denominator in lowest terms), so the arithmetic identities   *)
(* checked here are those of real arithmetic; binary rounding of floats is *)
(* not represented.  The six-decimal formatting of the returned amounts    *)
(* is modelled as rounding to an integer number of millionths.             *)
(* Identifiers are modelled as already stripped strings, amounts and       *)
(* weights as already parsed numbers.                                      *)
(***************************************************************************)
EXTENDS Integers, Sequences, FiniteSets, TLC

\* ---------------------------------------------------------------- bounds

MaxIters == 3         \* max_iters ranges over 1..MaxIters
MaxCoaRows == 3       \* chart rows handed to validate_tree

\* ------------------------------------------------------------ identifiers

Root == ""                       \* the empty parent id: "no parent"
AccountIds == {"a", "b", "c"}    \* the accounts of the charts
Fourth == "d"                    \* one more account, of the star chart only
Ghost == "x"                     \* an id that is no account of any chart
AllIds == AccountIds \cup {Ghost}
ParentIds == AllIds \cup {Root}

\* Python compares the ids as strings; every id here is at most one character.
Rank(id) ==
  CASE id = "" -> 0 [] id = "a" -> 1 [] id = "b" -> 2 [] id = "c" -> 3
    [] id = "d" -> 4 [] id = "x" -> 5

\* ------------------------------------------------------ exact arithmetic

Abs(n) == IF n < 0 THEN -n ELSE n

RECURSIVE GCD(_, _)
GCD(a, b) == IF b = 0 THEN a ELSE GCD(b, a % b)

\* The rational n/d in lowest terms with a positive denominator (d # 0).
Rat(n, d) ==
  LET g == GCD(Abs(n), Abs(d))
      sg == IF d < 0 THEN -1 ELSE 1
  IN [n |-> sg * (n \div g), d |-> sg * (d \div g)]

to_float(k) == [n |-> k, d |-> 1]
Zero == to_float(0)
RAdd(x, y) == Rat(x.n * y.d + y.n * x.d, x.d * y.d)
RMul(x, y) == Rat(x.n * y.n, x.d * y.d)
\* the quotient with the division left out
RDiv_left_out(x, y) == x
RDiv(x, y) == Rat(x.n * y.d, x.d * y.n)
RLeqZero(x) == x.n <= 0

\* ----------------------------------------------------- sequence helpers

BSeq(S, n) == UNION {[1..k -> S] : k \in 0..n}

RECURSIVE SeqSum(_)
SeqSum(s) == IF s = <<>> THEN Zero ELSE RAdd(SeqSum(SubSeq(s, 1, Len(s) - 1)), s[Len(s)])

RECURSIVE SetSum(_, _)
SetSum(f, S) ==
  IF S = {} THEN Zero
  ELSE LET k == CHOOSE k \in S : TRUE IN RAdd(f[k], SetSum(f, S \ {k}))

Range(s) == {s[i] : i \in DOMAIN s}

\* dict.get(k, 0.0)
Get(m, k) == IF k \in DOMAIN m THEN m[k] ELSE Zero

\* m[k] = v
Put(m, k, v) == [x \in DOMAIN m \cup {k} |-> IF x = k THEN v ELSE m[x]]

\* ------------------------------------------------------------ the state

VARIABLES
  coa_rows,     \* input: the chart rows [account_id, parent_id, name]
  costs_rows,   \* input: the cost rows [account_id, amount]
  alloc_rows,   \* input: the key rows [parent_id, child_id, weight]
  max_iters,    \* input: the iteration cap
  pc,           \* position in allocate_costs / validate_tree
  amt,          \* the ledger: account id -> amount
  alloc_map,    \* ordered dict parent -> filtered targets, as a sequence
  it,           \* passes started
  progress,     \* whether the current pass distributed anything
  todo,         \* the parents of parents_ready not yet processed in this pass
  notes,        \* the diagnostic notes, in order
  result,       \* the returned records, sorted
  flow,         \* log of the credits of line 228: [from, to, amount]
  visiting,     \* validate_tree: nodes in progress
  visited,      \* validate_tree: nodes done
  seeds,        \* validate_tree: traversal seeds not yet tried
  has_cycle,    \* validate_tree: the flag of line 151
  msgs          \* validate_tree: the messages

vars == <<coa_rows, costs_rows, alloc_rows, max_iters, pc, amt, alloc_map, it,
          progress, todo, notes, result, flow, visiting, visited, seeds,
          has_cycle, msgs>>

inputs == <<coa_rows, costs_rows, alloc_rows, max_iters>>
alloc_vars == <<amt, alloc_map, it, progress, todo, notes, result, flow>>
valid_vars == <<visiting, visited, seeds, has_cycle, msgs>>

\* ------------------------------------------------- chart of accounts

\* ids and parents of the rows, in row order (lines 114-115, 184-189)
ids(rows) == [i \in DOMAIN rows |-> rows[i].account_id]
parents(rows) == [i \in DOMAIN rows |-> rows[i].parent_id]

\* children[p]: the ids of the rows whose parent is p, in row order
\* (lines 131-133 and 190-192)
children(rows, p) ==
  LET hit == SelectSeq(rows, LAMBDA r : r.parent_id = p)
  IN [i \in DOMAIN hit |-> hit[i].account_id]

\* by_id.get(acc_id, Account(acc_id, "", "")): the last row of that id wins
by_id(rows, acc) ==
  LET hit == SelectSeq(rows, LAMBDA r : r.account_id = acc)
  IN IF hit = <<>> THEN [account_id |-> acc, parent_id |-> "", name |-> ""]
     ELSE hit[Len(hit)]

\* ------------------------------------------------------- the ledger

\* amt after lines 194-200: every id of a cost row and every account of the
\* chart has an entry; cost rows of one id add up.
CostOf(rows, acc) ==
  LET hit == SelectSeq(rows, LAMBDA r : r.account_id = acc)
  IN SeqSum([i \in DOMAIN hit |-> to_float(hit[i].amount)])

\* build_ledger without lines 199-200: no entry for an account without costs
build_ledger_costs_only(coa, costs) ==
  [acc \in Range(ids(costs)) |-> CostOf(costs, acc)]

build_ledger(coa, costs) ==
  [acc \in Range(ids(costs)) \cup Range(ids(coa)) |-> CostOf(costs, acc)]

\* ---------------------------------------------------- _normalize_weights

\* the keys of per_parent in insertion order: first appearance in the rows
RECURSIVE KeyOrder(_)
KeyOrder(rows) ==
  IF rows = <<>> THEN <<>>
  ELSE LET front == KeyOrder(SubSeq(rows, 1, Len(rows) - 1))
           p == rows[Len(rows)].parent_id
       IN IF p \in Range(front) THEN front ELSE Append(front, p)

\* per_parent[p]: the (child, weight) pairs of p's rows, in row order
per_parent(rows, p) ==
  LET hit == SelectSeq(rows, LAMBDA r : r.parent_id = p)
  IN [i \in DOMAIN hit |-> [c |-> hit[i].child_id, w |-> to_float(hit[i].weight)]]

\* tmp_sum[p]
tmp_sum(rows, p) ==
  LET lst == per_parent(rows, p) IN SeqSum([i \in DOMAIN lst |-> lst[i].w])

\* lines 173-177: every weight divided by the group's sum, or by 1 when the
\* sum is zero
normalize_weights(rows) ==
  LET order == KeyOrder(rows)
  IN [i \in DOMAIN order |->
        LET p == order[i]
            lst == per_parent(rows, p)
            s == IF tmp_sum(rows, p) # Zero THEN tmp_sum(rows, p) ELSE to_float(1)
        IN [p |-> p,
            lst |-> [j \in DOMAIN lst |-> [c |-> lst[j].c, w |-> RDiv(lst[j].w, s)]]]]

\* filter_targets with the test of line 207 left out: every target is kept
filter_targets_keeps_all(coa, norm) ==
  [i \in DOMAIN norm |-> [p |-> norm[i].p, lst |-> norm[i].lst]]

\* lines 204-208: only the targets that are direct children of p are kept
filter_targets(coa, norm) ==
  [i \in DOMAIN norm |->
     LET direct == Range(children(coa, norm[i].p))
     IN [p |-> norm[i].p,
         lst |-> SelectSeq(norm[i].lst, LAMBDA e : e.c \in direct)]]

\* alloc_map.get(p, [])
targets_of(map, p) ==
  LET hit == SelectSeq(map, LAMBDA e : e.p = p)
  IN IF hit = <<>> THEN <<>> ELSE hit[1].lst

weight_sum(targets) == SeqSum([i \in DOMAIN targets |-> targets[i].w])

\* line 215
parents_ready(map, ledger) ==
  LET hit == SelectSeq(map, LAMBDA e : Get(ledger, e.p) # Zero /\ e.lst # <<>>)
  IN [i \in DOMAIN hit |-> hit[i].p]

\* lines 227-228, one target after the other: amt[c] = amt.get(c) + amount*(w/s)
RECURSIVE credit(_, _, _, _)
credit(ledger, targets, amount, s) ==
  IF targets = <<>> THEN ledger
  ELSE LET front == credit(ledger, SubSeq(targets, 1, Len(targets) - 1), amount, s)
           e == targets[Len(targets)]
       IN Put(front, e.c, RAdd(Get(front, e.c), RMul(amount, RDiv(e.w, s))))

credit_log(p, targets, amount, s) ==
  [i \in DOMAIN targets |->
     [from |-> p, to |-> targets[i].c, amount |-> RMul(amount, RDiv(targets[i].w, s))]]

WeightsNote(p) == [kind |-> "weights", account |-> p]   \* line 225
CapNote == [kind |-> "cap", account |-> ""]             \* line 233

\* process_parent with line 229 left out: the parent keeps its balance
process_parent_keeps_balance(map, st, p) ==
  LET amount == Get(st.amt, p)
      targets == targets_of(map, p)
      s == weight_sum(targets)
  IN IF amount = Zero THEN st
     ELSE IF RLeqZero(s) \/ targets = <<>>
     THEN [st EXCEPT !.notes = Append(@, WeightsNote(p))]
     ELSE [amt |-> credit(st.amt, targets, amount, s),
           notes |-> st.notes,
           progress |-> TRUE,
           flow |-> st.flow \o credit_log(p, targets, amount, s)]

\* lines 219-230: the body of the for loop for parent p, on the loop's state
\* st = [amt, notes, progress, flow]
process_parent(map, st, p) ==
  LET amount == Get(st.amt, p)
      targets == targets_of(map, p)
      s == weight_sum(targets)
  IN IF amount = Zero THEN st
     ELSE IF RLeqZero(s) \/ targets = <<>>
     THEN [st EXCEPT !.notes = Append(@, WeightsNote(p))]
     ELSE [amt |-> Put(credit(st.amt, targets, amount, s), p, Zero),
           notes |-> st.notes,
           progress |-> TRUE,
           flow |-> st.flow \o credit_log(p, targets, amount, s)]

\* ------------------------------------------------------ the result

Decimals == 6

RECURSIVE Pow10(_)
Pow10(k) == IF k = 0 THEN 1 ELSE 10 * Pow10(k - 1)

\* f"{amount:.6f}": the amount rounded to millionths (ties to the even one),
\* as a count of millionths
format_amount(x) ==
  LET scaled == x.n * Pow10(Decimals)
      q == scaled \div x.d
      r == scaled % x.d
  IN IF 2 * r < x.d THEN q
     ELSE IF 2 * r > x.d THEN q + 1
     ELSE IF q % 2 = 0 THEN q ELSE q + 1

record_of(coa, ledger, acc) ==
  LET a == by_id(coa, acc)
  IN [account_id |-> a.account_id, parent_id |-> a.parent_id, name |-> a.name,
      amount |-> format_amount(ledger[acc])]

\* the sort key of line 240, compared as Python compares the tuples
KeyLess(r1, r2) ==
  \/ Rank(r1.parent_id) < Rank(r2.parent_id)
  \/ /\ r1.parent_id = r2.parent_id
     /\ Rank(r1.account_id) < Rank(r2.account_id)

\* lines 236-240.  The ledger has one entry per id, so no two records share a
\* sort key and the sorted list does not depend on the dict's order.
RECURSIVE sorted_records(_)
sorted_records(S) ==
  IF S = {} THEN <<>>
  ELSE LET m == CHOOSE m \in S : \A o \in S \ {m} : KeyLess(m, o)
       IN <<m>> \o sorted_records(S \ {m})

build_result(coa, ledger) ==
  sorted_records({record_of(coa, ledger, acc) : acc \in DOMAIN ledger})

\* ------------------------------------------ allocate_costs as one call

\* lines 218-230: the for loop over the parents that were ready
RECURSIVE run_pass(_, _, _)
run_pass(map, st, ready) ==
  IF ready = <<>> THEN st
  ELSE run_pass(map, process_parent(map, st, Head(ready)), Tail(ready))

\* lines 212-230: the while loop entered with it = i; the result carries the
\* final it
RECURSIVE cascade(_, _, _, _)
cascade(map, st, i, cap) ==
  IF ~(st.progress /\ i < cap) THEN [st |-> st, it |-> i]
  ELSE LET ready == parents_ready(map, st.amt)
           fresh == [st EXCEPT !.progress = FALSE]
       IN IF ready = <<>> THEN [st |-> fresh, it |-> i + 1]
          ELSE cascade(map, run_pass(map, fresh, ready), i + 1, cap)

\* lines 181-241: what one call returns (and the ledger it was built from)
allocate_costs(coa, costs, keys, cap) ==
  LET map == filter_targets(coa, normalize_weights(keys))
      st0 == [amt |-> build_ledger(coa, costs), notes |-> <<>>,
              progress |-> TRUE, flow |-> <<>>]
      fin == cascade(map, st0, 0, cap)
  IN [amt |-> fin.st.amt,
      notes |-> IF fin.it >= cap THEN Append(fin.st.notes, CapNote) ELSE fin.st.notes,
      result |-> build_result(coa, fin.st.amt)]

\* ------------------------------------------------------ validate_tree

\* lines 117-124: the ids that occur at least twice
duplicate_ids(rows) ==
  {rows[i].account_id : i \in {i \in DOMAIN rows :
      \E j \in DOMAIN rows : j # i /\ rows[j].account_id = rows[i].account_id}}

\* lines 126-127
bad_parents(rows) ==
  {p \in Range(parents(rows)) : p # "" /\ p \notin Range(ids(rows))}

\* roots without the parents: the search starts from the empty id alone
roots_empty_only(rows) == {""}

\* line 152
roots(rows) == Range(parents(rows)) \cup {""}

\* lines 138-149.  The result carries the two colour sets as the closure
\* leaves them: a search that finds a cycle returns at once and keeps the
\* nodes of its path in "visiting".
RECURSIVE dfs(_, _, _, _), dfs_children(_, _, _, _)
dfs(rows, node, vg, vd) ==
  IF node \in vg THEN [found |-> TRUE, visiting |-> vg, visited |-> vd]
  ELSE IF node \in vd THEN [found |-> FALSE, visiting |-> vg, visited |-> vd]
  ELSE LET r == dfs_children(rows, children(rows, node), vg \cup {node}, vd)
       IN IF r.found THEN r
          ELSE [found |-> FALSE, visiting |-> r.visiting \ {node},
                visited |-> r.visited \cup {node}]

dfs_children(rows, chs, vg, vd) ==
  IF chs = <<>> THEN [found |-> FALSE, visiting |-> vg, visited |-> vd]
  ELSE LET r == dfs(rows, Head(chs), vg, vd)
       IN IF r.found THEN r ELSE dfs_children(rows, Tail(chs), r.visiting, r.visited)

DupNote(S) == [kind |-> "duplicates", ids |-> S]     \* line 124
BadParentNote(S) == [kind |-> "bad_parents", ids |-> S]   \* line 129
CycleNote == [kind |-> "cycle", ids |-> {}]           \* line 158

\* ------------------------------------------------------------ inputs

CoaRow(acc, par) == [account_id |-> acc, parent_id |-> par, name |-> "n"]

\* a chart with one row per account, in the order a, b, c
ChartOf(par) == <<CoaRow("a", par["a"]), CoaRow("b", par["b"]), CoaRow("c", par["c"])>>

\* The charts allocate_costs is run on: every forest on three accounts up to
\* renaming (a is a root, b is a root or under a, c is anywhere), and four
\* charts that are no forest: a its own parent, or a and b each other's
\* parent, with c a root.
ParentMaps ==
  {par \in [AccountIds -> {"", "a", "b"}] :
     /\ par["b"] # "b"
     /\ par["a"] = "b" => par["b"] = "a"
     /\ par["a"] # "" => par["c"] = ""}

\* One chart more, with three accounts under one parent: an amount split in
\* three does not come out even in six decimals.
Star ==
  <<CoaRow("a", ""), CoaRow("b", "a"), CoaRow("c", "a"), CoaRow(Fourth, "a")>>

Charts == {ChartOf(par) : par \in ParentMaps} \cup {Star}

Amounts == {1}
Weights == {-2, -1, 0, 1, 2}

\* lists of at most two rows
UpToTwo(S) == {<<>>} \cup {<<r>> : r \in S} \cup {<<r1, r2>> : r1, r2 \in S}

CostRows == [account_id : AllIds, amount : Amounts]

\* Cost rows add up, so their order does not matter: lists in id order.
CostLists ==
  {l \in UpToTwo(CostRows) :
     Len(l) = 2 => Rank(l[1].account_id) <= Rank(l[2].account_id)}

\* The accounts that key rows name as parent.  No chart above puts an
\* account under c, so c as a key parent would only repeat what a childless
\* b shows.
KeyParents == {"a", "b"}

\* Key rows of a key parent: to one of its direct children, or to an id that
\* is not its child (line 207 drops every such row alike).
KeyRows(coa) ==
  {r \in [parent_id : KeyParents, child_id : AllIds, weight : Weights] :
     r.child_id \in Range(children(coa, r.parent_id)) \cup {Ghost}}

\* The rows of one parent add up, so their order among themselves does not
\* matter: lists where two rows of one parent stand in child order.
\* For the star chart: one row to each of the three children.
StarWeights == {1, 2}
StarKeyLists ==
  {<<[parent_id |-> "a", child_id |-> "b", weight |-> w1],
     [parent_id |-> "a", child_id |-> "c", weight |-> w2],
     [parent_id |-> "a", child_id |-> Fourth, weight |-> w3]>> :
     w1, w2, w3 \in StarWeights}

KeyLists(coa) ==
  IF coa = Star THEN StarKeyLists
  ELSE {l \in UpToTwo(KeyRows(coa)) :
          (Len(l) = 2 /\ l[1].parent_id = l[2].parent_id)
            => Rank(l[1].child_id) <= Rank(l[2].child_id)}

\* ------------------------------------------------------------ Init

Idle ==
  /\ amt = <<>>
  /\ alloc_map = <<>>
  /\ it = 0
  /\ progress = TRUE
  /\ todo = <<>>
  /\ notes = <<>>
  /\ result = <<>>
  /\ flow = <<>>
  /\ visiting = {}
  /\ visited = {}
  /\ seeds = {}
  /\ has_cycle = FALSE
  /\ msgs = <<>>

Init ==
  /\ coa_rows \in Charts
  /\ costs_rows \in CostLists
  /\ alloc_rows \in KeyLists(coa_rows)
  /\ max_iters \in 1..MaxIters
  /\ pc = "start"
  /\ Idle

\* ------------------------------------------------------- allocate_costs

\* lines 182-211: the ledger, the normalised and filtered keys, the counters
Prepare ==
  /\ pc = "start"
  /\ amt' = build_ledger(coa_rows, costs_rows)
  /\ alloc_map' = filter_targets(coa_rows, normalize_weights(alloc_rows))
  /\ it' = 0
  /\ progress' = TRUE
  /\ notes' = <<>>
  /\ pc' = "loop"
  /\ UNCHANGED <<inputs, todo, result, flow, valid_vars>>

\* lines 212-217: the loop test, the counters and parents_ready; an empty
\* list leaves the loop at once
BeginPass ==
  /\ pc = "loop"
  /\ progress /\ it < max_iters
  /\ it' = it + 1
  /\ progress' = FALSE
  /\ LET ready == parents_ready(alloc_map, amt)
     IN /\ todo' = ready
        /\ pc' = IF ready = <<>> THEN "exit" ELSE "for"
  /\ UNCHANGED <<inputs, amt, alloc_map, notes, result, flow, valid_vars>>

\* lines 218-230: the body of the for loop for the next parent of the pass
ProcessParent ==
  /\ pc = "for"
  /\ LET st == process_parent(alloc_map,
                 [amt |-> amt, notes |-> notes, progress |-> progress, flow |-> flow],
                 Head(todo))
     IN /\ amt' = st.amt
        /\ notes' = st.notes
        /\ progress' = st.progress
        /\ flow' = st.flow
  /\ todo' = Tail(todo)
  /\ pc' = IF Tail(todo) = <<>> THEN "loop" ELSE "for"
  /\ UNCHANGED <<inputs, alloc_map, it, result, valid_vars>>

\* lines 232-241: the cap note, the records, the sort
Finish ==
  /\ \/ pc = "exit"
     \/ pc = "loop" /\ ~(progress /\ it < max_iters)
  /\ notes' = IF it >= max_iters THEN Append(notes, CapNote) ELSE notes
  /\ result' = build_result(coa_rows, amt)
  /\ pc' = "done"
  /\ UNCHANGED <<inputs, amt, alloc_map, it, progress, todo, flow, valid_vars>>

Next == Prepare \/ BeginPass \/ ProcessParent \/ Finish

Spec == Init /\ [][Next]_vars

\* -------------------------------------------------------- validate_tree

\* the rows validate_tree is handed: any ids, any parents (an id that is no
\* account included), repeated ids included
ValidateRows == [account_id : AccountIds, parent_id : ParentIds, name : {"n"}]

InitValidate ==
  /\ coa_rows \in BSeq(ValidateRows, MaxCoaRows)
  /\ costs_rows = <<>>
  /\ alloc_rows = <<>>
  /\ max_iters = 1
  /\ pc = "v_start"
  /\ Idle

\* lines 113-136 and 151-152: the duplicate and the bad-parent message, the
\* empty colour sets, the traversal seeds
ValidateStart ==
  /\ pc = "v_start"
  /\ msgs' = (IF duplicate_ids(coa_rows) # {}
                THEN <<DupNote(duplicate_ids(coa_rows))>> ELSE <<>>)
             \o (IF bad_parents(coa_rows) # {}
                   THEN <<BadParentNote(bad_parents(coa_rows))>> ELSE <<>>)
  /\ visiting' = {}
  /\ visited' = {}
  /\ has_cycle' = FALSE
  /\ seeds' = roots(coa_rows)
  /\ pc' = "v_seeds"
  /\ UNCHANGED <<inputs, alloc_vars>>

\* lines 153-156: one turn of the loop over the seeds, a set that Python
\* iterates in no fixed order; the loop ends at the first cycle found
TrySeed ==
  /\ pc = "v_seeds"
  /\ ~has_cycle
  /\ \E r \in seeds :
       LET res == dfs(coa_rows, r, visiting, visited)
       IN /\ has_cycle' = res.found
          /\ visiting' = res.visiting
          /\ visited' = res.visited
          /\ seeds' = seeds \ {r}
  /\ UNCHANGED <<inputs, alloc_vars, pc, msgs>>

\* lines 157-160
ValidateFinish ==
  /\ pc = "v_seeds"
  /\ has_cycle \/ seeds = {}
  /\ msgs' = IF has_cycle THEN Append(msgs, CycleNote) ELSE msgs
  /\ pc' = "v_done"
  /\ UNCHANGED <<inputs, alloc_vars, visiting, visited, seeds, has_cycle>>

NextValidate == ValidateStart \/ TrySeed \/ ValidateFinish

SpecValidate == InitValidate /\ [][NextValidate]_vars

\* the flag validate_tree returns (line 160)
valid == msgs = <<>>

\* ------------------------------------------- what the claims speak about

ChartIds == Range(ids(coa_rows))

\* the parent links of a chart: account -> parent, for the non-empty parents
ParentLinks(rows) ==
  {<<rows[i].account_id, rows[i].parent_id>> : i \in {i \in DOMAIN rows : rows[i].parent_id # ""}}

RECURSIVE Closure(_)
Closure(R) ==
  LET step == R \cup {<<e[1], f[2]>> : <<e, f>> \in {<<e, f>> \in R \X R : e[2] = f[1]}}
  IN IF step = R THEN R ELSE Closure(step)

\* some account is its own ancestor
HasDirectedCycle(rows) ==
  \E e \in Closure(ParentLinks(rows)) : e[1] = e[2]

UniqueIds(rows) == \A i, j \in DOMAIN rows : rows[i].account_id = rows[j].account_id => i = j

\* a valid, acyclic chart: unique ids, every non-empty parent an account, no cycle
ValidChart(rows) ==
  /\ UniqueIds(rows)
  /\ \A i \in DOMAIN rows : rows[i].parent_id # "" => rows[i].parent_id \in Range(ids(rows))
  /\ ~HasDirectedCycle(rows)

\* ------------------------------------------------------------ checks

Done == pc = "done"

\* The step-by-step run and the call computed at once agree.
StepsAgreeWithCall ==
  Done => LET r == allocate_costs(coa_rows, costs_rows, alloc_rows, max_iters)
          IN amt = r.amt /\ notes = r.notes /\ result = r.result

\* the summed cost rows of an account
Own(acc) == CostOf(costs_rows, acc)

TotalCost == SeqSum([i \in DOMAIN costs_rows |-> to_float(costs_rows[i].amount)])

\* the key rows of p that name one of its direct children
GenuineRows(p) ==
  SelectSeq(alloc_rows, LAMBDA r :
    r.parent_id = p /\ r.child_id \in Range(children(coa_rows, p)))

HasKeyRows(p) == \E i \in DOMAIN alloc_rows : alloc_rows[i].parent_id = p

RECURSIVE IntSum(_)
IntSum(s) == IF s = <<>> THEN 0 ELSE s[1] + IntSum(Tail(s))

\* the raw weights of p's rows to its direct children, added up
GenuineSum(p) ==
  LET g == GenuineRows(p) IN IntSum([i \in DOMAIN g |-> g[i].weight])

\* the raw weights of all of p's rows, added up
RawSum(p) ==
  LET g == SelectSeq(alloc_rows, LAMBDA r : r.parent_id = p)
  IN IntSum([i \in DOMAIN g |-> g[i].weight])

\* what the credits of the run brought to an account, and took from it
CreditsTo(acc) == SelectSeq(flow, LAMBDA f : f.to = acc)
CreditsFrom(acc) == SelectSeq(flow, LAMBDA f : f.from = acc)
Received(acc) ==
  LET c == CreditsTo(acc) IN SeqSum([i \in DOMAIN c |-> c[i].amount])

HasWeightsNote(p) == \E i \in DOMAIN notes : notes[i] = WeightsNote(p)
HasCapNote == \E i \in DOMAIN notes : notes[i] = CapNote

\* ------------------------------------------------------------------ C1

\* the amounts of the returned records, in millionths, added up
RECURSIVE IntSumOf(_)
IntSumOf(s) == IF s = <<>> THEN 0 ELSE s[1].amount + IntSumOf(Tail(s))
ReturnedSum == IntSumOf(result)

\* the distance between a ledger amount and a count of millionths, doubled
TwiceOff(x, m) == Abs(2 * (x.n * Pow10(Decimals) - m * x.d))

\* C1 as claimed: for a valid, acyclic chart the amounts of the records that
\* allocate_costs returns add up to the sum of all input cost amounts.
C1_ReturnedSum ==
  (Done /\ ValidChart(coa_rows)) =>
    ReturnedSum = TotalCost.n * Pow10(Decimals) /\ TotalCost.d = 1

\* C1 as amended: for a valid, acyclic chart the amounts of the settled
\* ledger add up to the sum of all input cost amounts, whatever the cost rows
\* and the key rows are, and every returned record carries its ledger amount
\* rounded to six decimals: off by half a millionth at most.
C1_Conservation ==
  (Done /\ ValidChart(coa_rows)) =>
    /\ SetSum(amt, DOMAIN amt) = TotalCost
    /\ \A i \in DOMAIN result :
         TwiceOff(amt[result[i].account_id], result[i].amount)
           <= amt[result[i].account_id].d

\* a valid chart and a parent that split its balance in three: the ledger
\* adds up, the six-decimal amounts of the records do not
C1_Witness ==
  /\ Done
  /\ ValidChart(coa_rows)
  /\ Len(costs_rows) = 2
  /\ \E p \in ChartIds : Len(CreditsFrom(p)) = 3
  /\ SetSum(amt, DOMAIN amt) = TotalCost
  /\ ReturnedSum # TotalCost.n * Pow10(Decimals)

\* a valid chart, two cost rows for one account, a distribution and a parent
\* that was refused for its weights
ConservationWithAnomaly ==
  /\ Done
  /\ ValidChart(coa_rows)
  /\ Len(costs_rows) = 2
  /\ costs_rows[1].account_id = costs_rows[2].account_id
  /\ flow # <<>>
  /\ \E p \in ChartIds : HasWeightsNote(p)

\* ------------------------------------------------------------------ C2

\* C2: an account that holds a nonzero balance, is a parent (children in the
\* chart, or key rows naming it as parent) and has no key row to a direct
\* child is named by a weights note when allocate_costs returns (stated for
\* valid charts and runs that do not end at the iteration cap).
C2_NoteForKeylessParent ==
  (Done /\ ValidChart(coa_rows) /\ ~HasCapNote) =>
    \A p \in ChartIds :
      ( /\ amt[p] # Zero
        /\ children(coa_rows, p) # <<>> \/ HasKeyRows(p)
        /\ GenuineRows(p) = <<>> )
      => HasWeightsNote(p)

\* ------------------------------------------------------------------ C3

NoUsableKey(p) == GenuineRows(p) = <<>> \/ GenuineSum(p) = 0

\* C3: an account with no usable key (no key rows, key rows to non-children
\* only, or weights to its direct children adding up to zero) never credits
\* anything to anyone; what it holds is its own summed cost rows plus the
\* credits it received, and those came from its parent.
C3_Retains ==
  Done =>
  \A p \in ChartIds :
    NoUsableKey(p) =>
      /\ CreditsFrom(p) = <<>>
      /\ amt[p] = RAdd(Own(p), Received(p))
      /\ \A i \in DOMAIN result :
           result[i].account_id = p
             => result[i].amount = format_amount(RAdd(Own(p), Received(p)))
      /\ \A i \in DOMAIN flow :
           flow[i].to = p => flow[i].from = by_id(coa_rows, p).parent_id

\* an account with children and a zero-sum key that has own costs and
\* received from its parent
C3_Witness ==
  /\ Done
  /\ \E p \in ChartIds :
       /\ GenuineRows(p) # <<>>
       /\ GenuineSum(p) = 0
       /\ Own(p) # Zero
       /\ Received(p) # Zero
       /\ amt[p] = RAdd(Own(p), Received(p))

\* ------------------------------------------------------------------ C4

\* a key the claim calls usable: rows to direct children, weights adding up
\* to more than zero
Usable(p) == GenuineRows(p) # <<>> /\ GenuineSum(p) > 0

\* the raw weights of p's rows that name c, added up
WeightTo(p, c) ==
  LET g == SelectSeq(alloc_rows, LAMBDA r : r.parent_id = p /\ r.child_id = c)
  IN IntSum([i \in DOMAIN g |-> g[i].weight])

\* In a valid chart: what reaches an account in all, its own costs plus its
\* share of what reaches its parent when the parent's key is usable; the
\* ancestors' amounts times the weight ratios along the path.
RECURSIVE Gross(_)
Gross(acc) ==
  LET par == by_id(coa_rows, acc).parent_id
  IN IF par # "" /\ Usable(par)
     THEN RAdd(Own(acc),
               RMul(Gross(par), Rat(WeightTo(par, acc), GenuineSum(par))))
     ELSE Own(acc)

Expected(acc) == IF Usable(acc) THEN Zero ELSE Gross(acc)

\* C4: for a valid chart, when allocate_costs returns (not at the iteration
\* cap), every account with a usable key holds 0 and every other account
\* holds its own amount plus its share of its ancestors' amounts.
C4_FullCascade ==
  (Done /\ ValidChart(coa_rows) /\ ~HasCapNote) =>
    \A acc \in ChartIds : amt[acc] = Expected(acc)

\* The same where no key group adds up to less than zero: there the closed
\* form is what the code computes.
CascadeClosedForm ==
  (Done /\ ValidChart(coa_rows) /\ ~HasCapNote
     /\ \A p \in ChartIds : RawSum(p) >= 0) =>
    \A acc \in ChartIds : amt[acc] = Expected(acc)

\* ------------------------------------------------------------------ C5

\* the positive constants a key group is multiplied by
Scales == {2, 100}

\* the key rows with every raw weight of p's group multiplied by k
ScaleGroup(rows, p, k) ==
  [i \in DOMAIN rows |->
     IF rows[i].parent_id = p THEN [rows[i] EXCEPT !.weight = @ * k] ELSE rows[i]]

RECURSIVE Level(_)
Level(acc) ==
  LET par == by_id(coa_rows, acc).parent_id
  IN IF par = "" THEN 1 ELSE 1 + Level(par)

Depth ==
  CHOOSE d \in 1..Cardinality(ChartIds) :
    /\ \E acc \in ChartIds : Level(acc) = d
    /\ \A acc \in ChartIds : Level(acc) <= d

\* C7: for a valid (acyclic) chart and a max_iters of at least the depth of
\* the tree, the iteration-cap note is not appended.
C7_NoCapNote ==
  (Done /\ ValidChart(coa_rows) /\ max_iters >= Depth) => ~HasCapNote

\* The same for a max_iters above the depth: the pass that finds nothing
\* left to distribute is counted too, so a tree of depth d ends with it <= d.
NoCapNoteAboveDepth ==
  (Done /\ ValidChart(coa_rows) /\ max_iters > Depth) => ~HasCapNote

\* ------------------------------------------------------------------ C8

CostIds == Range(ids(costs_rows))
ResultIds == {result[i].account_id : i \in DOMAIN result}

\* C8 as claimed: the records are those of the accounts of the chart, one
\* each, and no other.
C8_ChartRecordsOnly ==
  Done => ResultIds = ChartIds /\ Len(result) = Cardinality(ChartIds)

\* C8 as amended: one record per account of the chart (a zero amount
\* included) and one per further id that a cost row names, with an empty
\* parent and name; key rows add none.
C8_Records ==
  Done =>
    /\ ResultIds = ChartIds \cup CostIds
    /\ Len(result) = Cardinality(ChartIds \cup CostIds)
    /\ \A i \in DOMAIN result :
         result[i].account_id \notin ChartIds
           => result[i].parent_id = "" /\ result[i].name = ""

\* a chart account returned with amount zero beside a record for an id that
\* only a cost row names, while a key row names another id
C8_Witness ==
  /\ Done
  /\ \E i, j \in DOMAIN result :
       /\ result[i].account_id \in ChartIds
       /\ result[i].amount = 0
       /\ result[j].account_id = Ghost
       /\ result[j].amount # 0
  /\ \E i \in DOMAIN alloc_rows : alloc_rows[i].child_id = Ghost

\* ------------------------------------------------------------------ C9

\* C9: a parent whose raw key weights add up to zero or less does not
\* distribute: it credits nothing and keeps what it had and received
\* (stated for valid charts).
C9_NoDistribution ==
  (Done /\ ValidChart(coa_rows)) =>
    \A p \in ChartIds :
      (HasKeyRows(p) /\ RawSum(p) <= 0) =>
        /\ CreditsFrom(p) = <<>>
        /\ amt[p] = RAdd(Own(p), Received(p))

\* ----------------------------------------------------------------- C10

\* C10: over all passes of one call at most one weights note is appended
\* per account (stated for valid charts).
C10_OneNotePerAccount ==
  ValidChart(coa_rows) =>
    \A p \in ChartIds :
      Cardinality({i \in DOMAIN notes : notes[i] = WeightsNote(p)}) <= 1

\* ----------------------------------------------------------------- C11

LedgerSum(ledger) == SetSum(ledger, DOMAIN ledger)

\* a step of the loop that distributed: the credit log grew
DistributionStep == pc = "for" /\ flow' # flow

\* an account that is its own parent and has a key row to itself
SelfTarget(p) ==
  \E i \in DOMAIN alloc_rows :
    /\ alloc_rows[i].parent_id = p
    /\ alloc_rows[i].child_id = p
    /\ p \in Range(children(coa_rows, p))

\* C11: every distribution step of the cascading loop leaves the sum of all
\* ledger values unchanged, on any chart (validated or not) and in any pass:
\* the parent's entry goes to zero and its former balance is added across
\* its targets.
C11_StepConserves ==
  [][DistributionStep => LedgerSum(amt') = LedgerSum(amt)]_vars

\* The same for the steps of a parent that is not its own target: there a
\* step moves the balance and the sum stays.
StepConservesWithoutSelfTarget ==
  [][(DistributionStep /\ ~SelfTarget(Head(todo)))
       => LedgerSum(amt') = LedgerSum(amt)]_vars

\* ------------------------------------------------------------------ C6

\* C6: validate_tree (ids non-empty) reports the cycle message exactly when
\* the parent links contain a directed cycle, and then returns valid = false.
C6_CycleDetection ==
  pc = "v_done" =>
    /\ (\E i \in DOMAIN msgs : msgs[i] = CycleNote) <=> HasDirectedCycle(coa_rows)
    /\ HasDirectedCycle(coa_rows) => ~valid

\* a cycle of two accounts that no path from the empty root reaches, found
C6_Witness ==
  /\ pc = "v_done"
  /\ \E i, j \in DOMAIN coa_rows :
       /\ coa_rows[i].account_id # coa_rows[j].account_id
       /\ coa_rows[i].parent_id = coa_rows[j].account_id
       /\ coa_rows[j].parent_id = coa_rows[i].account_id
  /\ UniqueIds(coa_rows)
  /\ \E i \in DOMAIN msgs : msgs[i] = CycleNote
  /\ ~valid

====
